---- MODULE Spec2Model ----
(***************************************************************************)
(* Model of the Mediator escrow contract (src/mediator.py).                *)
(*                                                                         *)
(* The contract storage is the record `data` (self.data in the source);    *)
(* `balance` is the amount of mutez the contract holds.  Every entry point *)
(* is an operator from (storage, params, sender, amount) to an outcome:    *)
(* either a failure carrying the message of the sp.verify that failed, or  *)
(* a success carrying the new storage and the list of transfers emitted by *)
(* sp.send.  One call is one atomic step: a failed call changes nothing,   *)
(* a successful one credits the attached amount, installs the new storage  *)
(* and debits the emitted transfers.                                       *)
(***************************************************************************)
EXTENDS Integers, Sequences, FiniteSets, TLC

\* ------------------------------------------------------------------ bounds
MaxPrice == 1
MaxStray == 1

\* --------------------------------------------------------------- constants
default_seller == "tz1YtuZ4vhzzn7ssCt93Put8U9UJDdvCXci4"
default_buyer == "tz1YtuZ4vhzzn7ssCt93Put8U9UJDdvCXci4"

alice == "alice"
bob == "bob"

\* Every identity that can send a call: the two test accounts and the
\* address the contract uses as placeholder (it is an ordinary address).
Address == {default_seller, alice, bob}

Price == 0..MaxPrice
\* Item ids are stored and never compared: two distinct values, of which one
\* is the id of the initial listing, show every case.
ItemId == {0, 1}
\* The two accounts and the item id of the test scenario.
Party == {alice, bob}
Item == {1}

\* Amounts a caller may attach: every exact stake 2*price, the amounts in
\* between and one above the largest stake.
Amount == 0..(2 * MaxPrice + 1)

\* The messages of the sp.verify calls, under the names the specification
\* gives to the errors.
AlreadyInUse == "Contract already in use."
InvalidStake == "Stake should be two times the product price."
ProductNotSet == "Product not yet set."
SellerNotSet == "Seller not yet set."
BuyerNotSet == "Buyer not yet set."
NotBuyer == "You are not the buyer."
NotSeller == "You are not the seller."

VARIABLES data, balance, stake, last, twin, gain

vars == <<data, balance, stake, last, twin, gain>>

\* ------------------------------------------------------------ pure helpers

\* sp.utils.nat_to_mutez: n units of one mutez.  The numeric value is kept;
\* all values of the model stay far below the 2^63 mutez limit.
nat_to_mutez(n) == n * 1

\* An outcome of an entry point.
Failed(d, msg) == [ok |-> FALSE, message |-> msg, data |-> d, operations |-> <<>>]
Done(d, ops) == [ok |-> TRUE, message |-> "", data |-> d, operations |-> ops]

\* sp.send(destination, amount)
send(ops, to, amt) == Append(ops, [to |-> to, amount |-> amt])

RECURSIVE Total(_)
Total(ops) == IF ops = <<>> THEN 0 ELSE Head(ops).amount + Total(Tail(ops))

\* Storage after Mediator.__init__
InitData ==
    [product |-> [item_id |-> 0, price |-> 0],
     seller |-> default_seller,
     buyer |-> default_buyer,
     seller_is_set |-> FALSE,
     buyer_is_set |-> FALSE]

\* reset_contract that forgets to clear seller_is_set.
reset_keeping_seller(d) ==
    [d EXCEPT !.product = [item_id |-> 0, price |-> 0],
              !.buyer_is_set = FALSE]

\* reset_contract that forgets to clear the listing.
reset_keeping_listing(d) ==
    [d EXCEPT !.buyer_is_set = FALSE,
              !.seller_is_set = FALSE]

reset_contract(d) ==
    [d EXCEPT !.product = [item_id |-> 0, price |-> 0],
              !.buyer_is_set = FALSE,
              !.seller_is_set = FALSE]

\* ------------------------------------------------------------ entry points

\* sell that takes the price itself as the stake.
sell_stake_is_price(d, params, sender, amount) ==
    IF ~(~d.seller_is_set) THEN Failed(d, AlreadyInUse)
    ELSE IF ~(amount = nat_to_mutez(params.price)) THEN Failed(d, InvalidStake)
    ELSE Done([d EXCEPT !.product.item_id = params.item_id,
                        !.product.price = params.price,
                        !.seller = sender,
                        !.seller_is_set = TRUE], <<>>)

\* sell without the check that no seller is set.
sell_over_seller(d, params, sender, amount) ==
    IF ~(amount = nat_to_mutez(2 * params.price)) THEN Failed(d, InvalidStake)
    ELSE Done([d EXCEPT !.product.item_id = params.item_id,
                        !.product.price = params.price,
                        !.seller = sender,
                        !.seller_is_set = TRUE], <<>>)

sell(d, params, sender, amount) ==
    IF ~(~d.seller_is_set) THEN Failed(d, AlreadyInUse)
    ELSE IF ~(amount = nat_to_mutez(2 * params.price)) THEN Failed(d, InvalidStake)
    ELSE Done([d EXCEPT !.product.item_id = params.item_id,
                        !.product.price = params.price,
                        !.seller = sender,
                        !.seller_is_set = TRUE], <<>>)

\* buy that checks the stake before the buyer flag.
buy_stake_first(d, params, sender, amount) ==
    IF ~d.seller_is_set THEN Failed(d, ProductNotSet)
    ELSE IF ~(amount = nat_to_mutez(2 * d.product.price)) THEN Failed(d, InvalidStake)
    ELSE IF ~(~d.buyer_is_set) THEN Failed(d, AlreadyInUse)
    ELSE Done([d EXCEPT !.buyer = sender,
                        !.buyer_is_set = TRUE], <<>>)

\* buy without the check that a seller is set.
buy_without_listing(d, params, sender, amount) ==
    IF ~(~d.buyer_is_set) THEN Failed(d, AlreadyInUse)
    ELSE IF ~(amount = nat_to_mutez(2 * d.product.price)) THEN Failed(d, InvalidStake)
    ELSE Done([d EXCEPT !.buyer = sender,
                        !.buyer_is_set = TRUE], <<>>)

\* buy that insists on the item id of the listing.
buy_matching_item(d, params, sender, amount) ==
    IF ~d.seller_is_set THEN Failed(d, ProductNotSet)
    ELSE IF ~(~d.buyer_is_set) THEN Failed(d, AlreadyInUse)
    ELSE IF ~(params.item_id = d.product.item_id) THEN Failed(d, ProductNotSet)
    ELSE IF ~(amount = nat_to_mutez(2 * d.product.price)) THEN Failed(d, InvalidStake)
    ELSE Done([d EXCEPT !.buyer = sender,
                        !.buyer_is_set = TRUE], <<>>)

buy(d, params, sender, amount) ==
    IF ~d.seller_is_set THEN Failed(d, ProductNotSet)
    ELSE IF ~(~d.buyer_is_set) THEN Failed(d, AlreadyInUse)
    ELSE IF ~(amount = nat_to_mutez(2 * d.product.price)) THEN Failed(d, InvalidStake)
    ELSE Done([d EXCEPT !.buyer = sender,
                        !.buyer_is_set = TRUE], <<>>)

\* received that checks the caller before the two flags.
received_caller_first(d, params, sender, amount) ==
    IF ~(sender = d.buyer) THEN Failed(d, NotBuyer)
    ELSE IF ~d.seller_is_set THEN Failed(d, SellerNotSet)
    ELSE IF ~d.buyer_is_set THEN Failed(d, BuyerNotSet)
    ELSE LET op1 == send(<<>>, sender, nat_to_mutez(d.product.price))
             op2 == send(op1, d.seller, nat_to_mutez(3 * d.product.price))
         IN  Done(reset_contract(d), op2)

\* received that refuses an attached amount.
received_without_amount(d, params, sender, amount) ==
    IF ~d.seller_is_set THEN Failed(d, SellerNotSet)
    ELSE IF ~d.buyer_is_set THEN Failed(d, BuyerNotSet)
    ELSE IF ~(sender = d.buyer) THEN Failed(d, NotBuyer)
    ELSE IF ~(amount = 0) THEN Failed(d, InvalidStake)
    ELSE LET op1 == send(<<>>, sender, nat_to_mutez(d.product.price))
             op2 == send(op1, d.seller, nat_to_mutez(3 * d.product.price))
         IN  Done(reset_contract(d), op2)

received(d, params, sender, amount) ==
    IF ~d.seller_is_set THEN Failed(d, SellerNotSet)
    ELSE IF ~d.buyer_is_set THEN Failed(d, BuyerNotSet)
    ELSE IF ~(sender = d.buyer) THEN Failed(d, NotBuyer)
    ELSE LET op1 == send(<<>>, sender, nat_to_mutez(d.product.price))
             op2 == send(op1, d.seller, nat_to_mutez(3 * d.product.price))
         IN  Done(reset_contract(d), op2)

\* unsell with the payout lines of received copied in.
unsell_split_as_received(d, params, sender, amount) ==
    IF ~d.seller_is_set THEN Failed(d, SellerNotSet)
    ELSE IF ~d.buyer_is_set THEN Failed(d, BuyerNotSet)
    ELSE IF ~(sender = d.seller) THEN Failed(d, NotSeller)
    ELSE LET op1 == send(<<>>, sender, nat_to_mutez(3 * d.product.price))
             op2 == send(op1, d.buyer, nat_to_mutez(d.product.price))
         IN  Done(reset_contract(d), op2)

\* unsell without the check of the caller.
unsell_by_anyone(d, params, sender, amount) ==
    IF ~d.seller_is_set THEN Failed(d, SellerNotSet)
    ELSE IF ~d.buyer_is_set THEN Failed(d, BuyerNotSet)
    ELSE LET op1 == send(<<>>, sender, nat_to_mutez(2 * d.product.price))
             op2 == send(op1, d.buyer, nat_to_mutez(2 * d.product.price))
         IN  Done(reset_contract(d), op2)

\* unsell that trusts the stored seller without looking at the flags.
unsell_trusting_identity(d, params, sender, amount) ==
    IF ~(sender = d.seller) THEN Failed(d, NotSeller)
    ELSE LET op1 == send(<<>>, sender, nat_to_mutez(2 * d.product.price))
             op2 == send(op1, d.buyer, nat_to_mutez(2 * d.product.price))
         IN  Done(reset_contract(d), op2)

\* unsell without the check that a buyer is set.
unsell_without_buyer(d, params, sender, amount) ==
    IF ~d.seller_is_set THEN Failed(d, SellerNotSet)
    ELSE IF ~(sender = d.seller) THEN Failed(d, NotSeller)
    ELSE LET op1 == send(<<>>, sender, nat_to_mutez(2 * d.product.price))
             op2 == send(op1, d.buyer, nat_to_mutez(2 * d.product.price))
         IN  Done(reset_contract(d), op2)

unsell(d, params, sender, amount) ==
    IF ~d.seller_is_set THEN Failed(d, SellerNotSet)
    ELSE IF ~d.buyer_is_set THEN Failed(d, BuyerNotSet)
    ELSE IF ~(sender = d.seller) THEN Failed(d, NotSeller)
    ELSE LET op1 == send(<<>>, sender, nat_to_mutez(2 * d.product.price))
             op2 == send(op1, d.buyer, nat_to_mutez(2 * d.product.price))
         IN  Done(reset_contract(d), op2)

\* The entry point `name` applied to storage d.
entry_point(name, d, params, sender, amount) ==
    CASE name = "sell" -> sell(d, params, sender, amount)
      [] name = "buy" -> buy(d, params, sender, amount)
      [] name = "received" -> received(d, params, sender, amount)
      [] name = "unsell" -> unsell(d, params, sender, amount)

\* ------------------------------------------------------------- state names
Empty(d) == ~d.seller_is_set /\ ~d.buyer_is_set
SellerStaked(d) == d.seller_is_set /\ ~d.buyer_is_set
FullyStaked(d) == d.seller_is_set /\ d.buyer_is_set

\* The name of the state the storage d is in.
StateName(d) ==
    CASE Empty(d) -> "Empty"
      [] SellerStaked(d) -> "SellerStaked"
      [] FullyStaked(d) -> "FullyStaked"
      [] OTHER -> "BuyerOnly"

\* --------------------------------------------------------------- execution

\* A failed call that still keeps the attached amount.
run_without_rollback(bal, amount, out) ==
    bal + amount - Total(out.operations)

\* Balance of the contract after one call: a failed call is rolled back, a
\* successful one keeps the attached amount and pays the emitted transfers.
run(bal, amount, out) ==
    IF out.ok THEN bal + amount - Total(out.operations) ELSE bal

\* The stakes accepted in the current cycle, by role.
stake_after(st, name, amount, out) ==
    IF ~out.ok THEN st
    ELSE CASE name = "sell" -> [st EXCEPT !.seller = amount]
           [] name = "buy" -> [st EXCEPT !.buyer = amount]
           [] OTHER -> [seller |-> 0, buyer |-> 0]

\* The reference instance restarts from the initial storage every time the
\* contract completes a cycle; between two resets it receives the same calls
\* as the contract, tout being the outcome of the call on it.
twin_after(tw, name, out, tout) ==
    [data |-> IF out.ok /\ name \in {"received", "unsell"} THEN InitData
              ELSE IF tout.ok THEN tout.data ELSE tw.data,
     ok |-> tout.ok,
     message |-> tout.message,
     operations |-> tout.operations]

\* One call of an entry point: out is its outcome on the contract.
Call(name, params, sender, amount) ==
    \E out \in {entry_point(name, data, params, sender, amount)},
       tout \in {entry_point(name, twin.data, params, sender, amount)} :
        /\ data' = IF out.ok THEN out.data ELSE data
        /\ balance' = run(balance, amount, out)
        /\ stake' = stake_after(stake, name, amount, out)
        /\ twin' = twin_after(twin, name, out, tout)
        /\ last' = [entry_point |-> name, params |-> params, sender |-> sender,
                    amount |-> amount, ok |-> out.ok, message |-> out.message,
                    operations |-> out.operations]

Init ==
    /\ data = InitData
    /\ balance = 0
    /\ stake = [seller |-> 0, buyer |-> 0]
    /\ twin = [data |-> InitData, ok |-> TRUE, message |-> "", operations |-> <<>>]
    /\ last = [entry_point |-> "init", params |-> [item_id |-> 0], sender |-> default_seller,
               amount |-> 0, ok |-> TRUE, message |-> "", operations |-> <<>>]
    /\ gain = [a \in Address |-> 0]

Sell ==
    \E sender \in Address, amount \in Amount, item_id \in ItemId, price \in Price :
        /\ Call("sell", [item_id |-> item_id, price |-> price], sender, amount)
        /\ UNCHANGED gain

Buy ==
    \E sender \in Address, amount \in Amount, item_id \in ItemId :
        /\ Call("buy", [item_id |-> item_id], sender, amount)
        /\ UNCHANGED gain

\* Nothing returns an amount attached to a resolving call, so the amounts
\* left behind are capped to keep the balance bounded.
Received ==
    \E sender \in Address, amount \in Amount, item_id \in ItemId :
        /\ Call("received", [item_id |-> item_id], sender, amount)
        /\ last'.ok => balance' <= MaxStray
        /\ UNCHANGED gain

Unsell ==
    \E sender \in Address, amount \in Amount, item_id \in ItemId :
        /\ Call("unsell", [item_id |-> item_id], sender, amount)
        /\ last'.ok => balance' <= MaxStray
        /\ UNCHANGED gain

Next == Sell \/ Buy \/ Received \/ Unsell

Spec == Init /\ [][Next]_vars

\* ------------------------------------------- executions without a delivery

\* The executions in which no received succeeds, calls being made by every
\* address for the item of the test scenario, with the account of every
\* identity kept in `gain`: what the contract has sent to it minus what it
\* has attached to its accepted calls.
RECURSIVE Credit(_, _)
Credit(g, ops) ==
    IF ops = <<>> THEN g
    ELSE Credit([g EXCEPT ![Head(ops).to] = @ + Head(ops).amount], Tail(ops))

gain_after(g, call) ==
    IF ~call.ok THEN g
    ELSE Credit([g EXCEPT ![call.sender] = @ - call.amount], call.operations)

SellTracked ==
    \E sender \in Address, amount \in Amount, item_id \in Item, price \in Price :
        /\ Call("sell", [item_id |-> item_id, price |-> price], sender, amount)
        /\ gain' = gain_after(gain, last')

BuyTracked ==
    \E sender \in Address, amount \in Amount, item_id \in Item :
        /\ Call("buy", [item_id |-> item_id], sender, amount)
        /\ gain' = gain_after(gain, last')

ReceivedRejected ==
    \E sender \in Address, amount \in Amount, item_id \in Item :
        /\ Call("received", [item_id |-> item_id], sender, amount)
        /\ ~last'.ok
        /\ gain' = gain_after(gain, last')

UnsellTracked ==
    \E sender \in Address, amount \in Amount, item_id \in Item :
        /\ Call("unsell", [item_id |-> item_id], sender, amount)
        /\ last'.ok => balance' <= MaxStray
        /\ gain' = gain_after(gain, last')

NoDeliveryNext == SellTracked \/ BuyTracked \/ ReceivedRejected \/ UnsellTracked

NoDeliverySpec == Init /\ [][NoDeliveryNext]_vars

\* ------------------------------------------------------ fair executions

\* The calls of the two accounts of the test scenario for its item, accepted
\* or rejected, with any price and any attached amount.

LiveSell ==
    \E sender \in Party, amount \in Amount, item_id \in Item, price \in Price :
        /\ Call("sell", [item_id |-> item_id, price |-> price], sender, amount)
        /\ UNCHANGED gain

LiveBuy ==
    \E sender \in Party, amount \in Amount, item_id \in Item :
        /\ Call("buy", [item_id |-> item_id], sender, amount)
        /\ UNCHANGED gain

LiveReceived ==
    \E sender \in Party, amount \in Amount, item_id \in Item :
        /\ Call("received", [item_id |-> item_id], sender, amount)
        /\ last'.ok => balance' <= MaxStray
        /\ UNCHANGED gain

LiveUnsell ==
    \E sender \in Party, amount \in Amount, item_id \in Item :
        /\ Call("unsell", [item_id |-> item_id], sender, amount)
        /\ last'.ok => balance' <= MaxStray
        /\ UNCHANGED gain

LiveNext == LiveSell \/ LiveBuy \/ LiveReceived \/ LiveUnsell

\* A sell, a buy, and a received or unsell, that is accepted.
GoodSell == LiveSell /\ last'.ok
GoodBuy == LiveBuy /\ last'.ok
Resolve == (LiveReceived \/ LiveUnsell) /\ last'.ok

\* Some buyer eventually stakes on a listing that stays open, and one of the
\* two parties eventually resolves a fully staked instance.
LiveSpec == Init /\ [][LiveNext]_vars /\ WF_vars(GoodBuy) /\ WF_vars(Resolve)

\* ------------------------------------------------------------------ claims

\* C1: in every reachable state the balance held is 0 when neither flag is
\* set, 2*price when only seller_is_set is set, and 4*price when both are.
C1_EscrowBalance ==
    /\ Empty(data) => balance = 0
    /\ SellerStaked(data) => balance = 2 * data.product.price
    /\ FullyStaked(data) => balance = 4 * data.product.price

\* C2: a successful received pays price to the buyer and 3*price to the
\* seller, the two payouts sum to 4*price, which is everything the contract
\* holds, and the state after the call is Empty.
C2_ReceivedPayout ==
    [][(last'.entry_point = "received" /\ last'.ok) =>
        LET p == data.product.price
        IN  /\ FullyStaked(data) /\ last'.sender = data.buyer
            /\ last'.operations = <<[to |-> data.buyer, amount |-> p],
                                    [to |-> data.seller, amount |-> 3 * p]>>
            /\ Total(last'.operations) = 4 * p
            /\ balance + last'.amount = 4 * p
            /\ Empty(data')]_vars

C5_Unauthorized ==
    [][FullyStaked(data) =>
        /\ (last'.entry_point = "received" /\ last'.sender # data.buyer) =>
              /\ ~last'.ok /\ last'.message = NotBuyer
              /\ last'.operations = <<>> /\ balance' = balance
              /\ data' = data
        /\ (last'.entry_point = "unsell" /\ last'.sender # data.seller) =>
              /\ ~last'.ok /\ last'.message = NotSeller
              /\ last'.operations = <<>> /\ balance' = balance
              /\ data' = data]_vars

C5_Witness ==
    /\ last.entry_point = "unsell"
    /\ last.message = NotSeller
    /\ last.sender = data.buyer
    /\ last.sender # data.seller
    /\ FullyStaked(data)

\* C6 (as stated): a sell whose attached amount differs from 2*price fails
\* with the stake error and leaves the instance Empty, in every state.
C6_SellInvalidStakeAnyState ==
    [][(last'.entry_point = "sell" /\ last'.amount # 2 * last'.params.price) =>
        /\ ~last'.ok
        /\ last'.message = InvalidStake
        /\ Empty(data')]_vars

\* C6 (amended): a sell made while no seller is set whose attached amount
\* differs from 2*price fails with the stake error and leaves the instance
\* Empty and untouched.
C6_SellInvalidStakeWhenEmpty ==
    [][(last'.entry_point = "sell" /\ last'.amount # 2 * last'.params.price
        /\ ~data.seller_is_set) =>
        /\ ~last'.ok
        /\ last'.message = InvalidStake
        /\ Empty(data')
        /\ data' = data /\ balance' = balance]_vars

C6_Witness ==
    /\ last.entry_point = "sell"
    /\ last.message = InvalidStake
    /\ last.params.price = 1 /\ last.amount = 1
    /\ Empty(data)

\* C7: while a seller is set, every sell fails with "Contract already in
\* use." and leaves the listing and the seller as they were.
C7_SecondSellRejected ==
    [][(data.seller_is_set /\ last'.entry_point = "sell") =>
        /\ ~last'.ok
        /\ last'.message = AlreadyInUse
        /\ data'.product = data.product
        /\ data'.seller = data.seller
        /\ data' = data]_vars

C7_Witness ==
    /\ last.entry_point = "sell"
    /\ last.message = AlreadyInUse
    /\ last.amount = 2 * last.params.price
    /\ last.params # data.product
    /\ last.sender # data.seller
    /\ SellerStaked(data)

\* C8: buy fails with "Product not yet set." when no seller is set, with
\* "Contract already in use." when a buyer is set, otherwise with the stake
\* error when the amount differs from 2*listing.price; it succeeds exactly
\* in SellerStaked with the amount 2*listing.price.
C8_BuyOutcome ==
    [][last'.entry_point = "buy" =>
        /\ ~data.seller_is_set => (~last'.ok /\ last'.message = ProductNotSet)
        /\ data.buyer_is_set => (~last'.ok /\ last'.message = AlreadyInUse)
        /\ (SellerStaked(data) /\ last'.amount # 2 * data.product.price) =>
              (~last'.ok /\ last'.message = InvalidStake)
        /\ last'.ok <=> (SellerStaked(data) /\ last'.amount = 2 * data.product.price)]_vars

C8_Witness ==
    /\ last.entry_point = "buy"
    /\ last.message = AlreadyInUse
    /\ last.amount # 2 * data.product.price
    /\ FullyStaked(data)

\* C9: from Empty, a sell by S with 2*price followed at once by a buy by B
\* with 2*price both succeed and leave the instance FullyStaked with the
\* listing of the sell, seller S, buyer B and a balance of exactly 4*price.
C9_SellThenBuy ==
    [][/\ (Empty(data) /\ last'.entry_point = "sell"
           /\ last'.amount = 2 * last'.params.price) => last'.ok
       /\ (last.entry_point = "sell" /\ last.ok /\ last'.entry_point = "buy"
           /\ last'.amount = 2 * last.params.price) =>
              /\ last'.ok
              /\ FullyStaked(data')
              /\ data'.product = last.params
              /\ data'.seller = last.sender
              /\ data'.buyer = last'.sender
              /\ balance' = 4 * last.params.price]_vars

\* C10: after a successful received or unsell the listing is {0,0} and both
\* flags are false, and from then on every call has the same outcome, the
\* same payouts and the same resulting listing and flags as the same call
\* sequence applied to the initial storage.
C10_FreshAfterReset ==
    /\ (last.entry_point \in {"received", "unsell"} /\ last.ok) =>
          /\ data.product = [item_id |-> 0, price |-> 0]
          /\ ~data.seller_is_set /\ ~data.buyer_is_set
    /\ twin.ok = last.ok
    /\ twin.message = last.message
    /\ twin.operations = last.operations
    /\ twin.data.product = data.product
    /\ twin.data.seller_is_set = data.seller_is_set
    /\ twin.data.buyer_is_set = data.buyer_is_set

C10_Witness ==
    /\ SellerStaked(data)
    /\ data.buyer # twin.data.buyer
    /\ last.entry_point = "received"
    /\ last.sender = data.buyer
    /\ last.message = BuyerNotSet

\* C11: in Empty, received and unsell by any caller, the stale seller or
\* buyer of the previous cycle and the placeholder address included, fail
\* with "Seller not yet set." and move nothing.
C11_ResolveWhenEmpty ==
    [][(Empty(data) /\ last'.entry_point \in {"received", "unsell"}) =>
        /\ ~last'.ok
        /\ last'.message = SellerNotSet
        /\ last'.operations = <<>>
        /\ balance' = balance
        /\ data' = data]_vars

C11_Witness ==
    /\ last.entry_point = "unsell"
    /\ last.message = SellerNotSet
    /\ last.sender = data.seller
    /\ data.seller # default_seller
    /\ Empty(data)

\* C13: transfers are emitted, and the balance decreases, only in a
\* successful received called by the registered buyer or a successful unsell
\* called by the registered seller, both in FullyStaked, and every recipient
\* is the registered seller or buyer; sell and buy send nothing.
C13_OnlyResolvingCallsPay ==
    [][(last'.operations # <<>> \/ balance' < balance) =>
        /\ last'.ok
        /\ last'.operations # <<>>
        /\ FullyStaked(data)
        /\ \/ last'.entry_point = "received" /\ last'.sender = data.buyer
           \/ last'.entry_point = "unsell" /\ last'.sender = data.seller
        /\ \A i \in DOMAIN last'.operations :
              last'.operations[i].to \in {data.seller, data.buyer}]_vars

C13_Witness ==
    /\ last.entry_point = "received"
    /\ last.ok
    /\ Total(last.operations) = 4
    /\ last.operations[1].to # last.operations[2].to

\* C15: the state changes only from Empty to SellerStaked by a successful
\* sell, from SellerStaked to FullyStaked by a successful buy and from
\* FullyStaked to Empty by a successful received or unsell; every successful
\* call makes one of these changes.
C15_Transitions ==
    [][(StateName(data') # StateName(data) \/ last'.ok) =>
        \/ /\ Empty(data) /\ SellerStaked(data')
           /\ last'.entry_point = "sell" /\ last'.ok
        \/ /\ SellerStaked(data) /\ FullyStaked(data')
           /\ last'.entry_point = "buy" /\ last'.ok
        \/ /\ FullyStaked(data) /\ Empty(data')
           /\ last'.entry_point \in {"received", "unsell"} /\ last'.ok]_vars

C15_Witness ==
    /\ last.entry_point = "unsell"
    /\ last.ok
    /\ Empty(data)
    /\ data.seller # data.buyer

\* C16: in every reachable state buyer_is_set implies seller_is_set.
C16_BuyerNeedsSeller ==
    data.buyer_is_set => data.seller_is_set

C16_Witness ==
    /\ data.buyer_is_set
    /\ data.seller_is_set
    /\ last.entry_point = "buy"
    /\ last.ok
    /\ data.buyer # default_buyer

\* C17: while seller_is_set is false the listing is {0,0}, and while a
\* seller is set the listing changes only in a successful received or
\* unsell.
C17_Listing ==
    /\ [](~data.seller_is_set => data.product = [item_id |-> 0, price |-> 0])
    /\ [][(data.seller_is_set
           /\ ~(last'.ok /\ last'.entry_point \in {"received", "unsell"})) =>
              data'.product = data.product]_vars

C17_Witness ==
    /\ last.entry_point = "received"
    /\ last.ok
    /\ Total(last.operations) > 0
    /\ ~data.seller_is_set
    /\ data.product = [item_id |-> 0, price |-> 0]

\* C18: the item_id passed to buy, received and unsell has no influence: in
\* every reachable state, for every caller and amount, two calls that differ
\* only in item_id have the same outcome, storage, payouts and balance.
C18_ItemIdIgnored ==
    \A name \in {"buy", "received", "unsell"}, sender \in Address, amount \in Amount :
        \A i1 \in ItemId, i2 \in ItemId :
            LET out1 == entry_point(name, data, [item_id |-> i1], sender, amount)
                out2 == entry_point(name, data, [item_id |-> i2], sender, amount)
            IN  /\ out1 = out2
                /\ run(balance, amount, out1) = run(balance, amount, out2)

C18_Witness ==
    /\ last.entry_point = "buy"
    /\ last.ok
    /\ last.params.item_id # data.product.item_id
    /\ data.product.price = 1

\* C19: in SellerStaked, sell fails with "Contract already in use.",
\* received and unsell fail with "Buyer not yet set." for every caller, the
\* only call that succeeds is a buy with exactly 2*price, nothing is sent
\* and the seller's stake of 2*price stays in the contract.
C19_SellerStakedLocked ==
    [][SellerStaked(data) =>
        /\ last'.entry_point = "sell" => (~last'.ok /\ last'.message = AlreadyInUse)
        /\ last'.entry_point \in {"received", "unsell"} =>
              (~last'.ok /\ last'.message = BuyerNotSet)
        /\ last'.ok => /\ last'.entry_point = "buy"
                       /\ last'.amount = 2 * data.product.price
        /\ ~last'.ok => (data' = data /\ balance' = balance)
        /\ last'.operations = <<>>
        /\ stake.seller = 2 * data.product.price
        /\ balance >= 2 * data.product.price
        /\ balance' >= balance]_vars

C19_Witness ==
    /\ last.entry_point = "unsell"
    /\ last.message = BuyerNotSet
    /\ last.sender = data.seller
    /\ SellerStaked(data)
    /\ data.product.price = 1

C12_NoGainWithoutDelivery ==
    \A a \in Address : gain[a] <= 0

C12_Witness ==
    /\ last.entry_point = "unsell"
    /\ last.ok
    /\ last.amount = 0
    /\ Total(last.operations) = 4
    /\ last.operations[1].to # last.operations[2].to
    /\ \A a \in Address : gain[a] = 0

\* C14: every state has an accepted call; in Empty every correctly staked
\* sell is accepted; and when a correctly staked buy and an authorized
\* resolving call are not postponed forever, every started cycle returns to
\* Empty.
C14_Reusable ==
    /\ [](ENABLED (GoodSell \/ GoodBuy \/ Resolve))
    /\ [](Empty(data) => ENABLED GoodSell)
    /\ [][(Empty(data) /\ last'.entry_point = "sell"
           /\ last'.amount = 2 * last'.params.price) =>
              (last'.ok /\ SellerStaked(data'))]_vars
    /\ (~Empty(data)) ~> Empty(data)

C14_Witness ==
    /\ last.entry_point = "sell"
    /\ last.ok
    /\ SellerStaked(data)
    /\ data.seller # twin.data.buyer
    /\ data.buyer # default_buyer

====
